---- MODULE Spec2Model ----
(***************************************************************************)
(* Model of nni/trial.py: the trial-side reporting facade.                 *)
(*                                                                         *)
(* The module-level globals of trial.py are the state; every public        *)
(* function is one action.  The command channel and the environment are    *)
(* external: the channel's answers are chosen nondeterministically, the    *)
(* environment is chosen once in Init.  Assertions are modelled as the     *)
(* default interpreter runs them (__debug__ true).                         *)
(***************************************************************************)
EXTENDS Integers, Sequences, FiniteSets, TLC

VARIABLES
    trial_env_vars,     \* the environment signals, read once (line 8)
    import_status,      \* "ok", or the error raised by lines 24-27 / 104
    _params,            \* line 24
    _experiment_id,     \* line 25
    _trial_id,          \* line 26
    _sequence_id,       \* line 27
    _intermediate_seq,  \* line 104
    observed,           \* sequence numbers of the PERIODICAL envelopes the
                        \* channel accepted, in order
    since_override,     \* the latest completed overwrite_intermediate_seq and
                        \* the PERIODICAL envelopes accepted since
    result              \* the latest facade call: arguments, outcome and the
                        \* envelope it handed to send_metric

vars == <<trial_env_vars, import_status, _params, _experiment_id, _trial_id,
          _sequence_id, _intermediate_seq, observed, since_override, result>>

-----------------------------------------------------------------------------
(* Bounds *)

\* most PERIODICAL envelopes the channel accepts in one run
MaxSent == 3

\* largest integer handed to overwrite_intermediate_seq
MaxOverride == 2

-----------------------------------------------------------------------------
(* Python values.  Every value carries its runtime type in "kind".         *)

None == [kind |-> "None"]

PyInt(n) == [kind |-> "int", v |-> n]

\* bool is a subclass of int: True behaves as 1, False as 0
PyBool(n) == [kind |-> "bool", v |-> n]

PyFloat(milli) == [kind |-> "float", milli |-> milli]

\* a string is its sequence of characters
PyStr(chars) == [kind |-> "str", s |-> chars]

PyDict(f) == [kind |-> "dict", items |-> f]

\* Python truthiness of the values the module tests with `or` / `if`
Truthy(x) ==
    CASE x.kind = "None"   -> FALSE
      [] x.kind = "str"    -> x.s # <<>>
      [] x.kind = "dict"   -> DOMAIN x.items # {}
      [] x.kind = "record" -> TRUE    \* a ParameterRecord always has its two keys
      [] OTHER             -> TRUE

\* `a or b`
PyOr(a, b) == IF Truthy(a) THEN a ELSE b

STANDALONE == PyStr(<<"S", "T", "A", "N", "D", "A", "L", "O", "N", "E">>)

-----------------------------------------------------------------------------
(* int(str)                                                                *)

Digits == <<"0", "1", "2", "3", "4", "5", "6", "7", "8", "9">>

IsDigit(c) == \E i \in 1..10 : Digits[i] = c

DigitVal(c) == (CHOOSE i \in 1..10 : Digits[i] = c) - 1

IsSpace(c) == c \in {" ", "\t", "\n"}

RECURSIVE LStrip(_)
LStrip(s) == IF s # <<>> /\ IsSpace(Head(s)) THEN LStrip(Tail(s)) ELSE s

RECURSIVE RStrip(_)
RStrip(s) ==
    IF s # <<>> /\ IsSpace(s[Len(s)]) THEN RStrip(SubSeq(s, 1, Len(s) - 1)) ELSE s

Strip(s) == RStrip(LStrip(s))

\* digits, single underscores allowed between two digits
IsDigitRun(s) ==
    /\ s # <<>>
    /\ IsDigit(s[1]) /\ IsDigit(s[Len(s)])
    /\ \A i \in 1..Len(s) : IsDigit(s[i]) \/ s[i] = "_"
    /\ \A i \in 1..(Len(s) - 1) : ~(s[i] = "_" /\ s[i + 1] = "_")

RECURSIVE DigitRunVal(_, _)
DigitRunVal(s, acc) ==
    IF s = <<>> THEN acc
    ELSE IF Head(s) = "_" THEN DigitRunVal(Tail(s), acc)
    ELSE DigitRunVal(Tail(s), 10 * acc + DigitVal(Head(s)))

Unsigned(s) == IF s # <<>> /\ Head(s) \in {"+", "-"} THEN Tail(s) ELSE s

IntParses(chars) == IsDigitRun(Unsigned(Strip(chars)))

IntOf(chars) ==
    LET t == Strip(chars)
        n == DigitRunVal(Unsigned(t), 0)
    IN  IF Head(t) = "-" THEN 0 - n ELSE n

-----------------------------------------------------------------------------
(* The environment                                                         *)

Env(platform, exp, job, seq) ==
    [NNI_PLATFORM |-> platform, NNI_EXP_ID |-> exp,
     NNI_TRIAL_JOB_ID |-> job, NNI_TRIAL_SEQ_ID |-> seq]

\* os.environ yields a string (possibly empty) or nothing
Environments ==
    { Env(None, None, None, None),
      Env(PyStr(<<"l", "o", "c", "a", "l">>), PyStr(<<"e", "1">>),
          PyStr(<<"j", "1">>), PyStr(<<"7">>)),
      Env(PyStr(<<>>), PyStr(<<>>), PyStr(<<>>), PyStr(<<" ", "-", "1", "_", "2">>)),
      Env(None, None, PyStr(<<"j", "1">>), PyStr(<<"0">>)),
      Env(PyStr(<<"l", "o", "c", "a", "l">>), PyStr(<<"e", "1">>), None, PyStr(<<"x">>)),
      Env(None, None, None, PyStr(<<>>)) }

\* a global whose assignment was never reached
Unbound == [kind |-> "unbound"]

\* line 25
InitExperimentId(env) == PyOr(env.NNI_EXP_ID, STANDALONE)

\* variant of line 26: only an absent signal gets the default
InitTrialIdIfAbsent(env) ==
    IF env.NNI_TRIAL_JOB_ID = None THEN STANDALONE ELSE env.NNI_TRIAL_JOB_ID

\* line 26
InitTrialId(env) == PyOr(env.NNI_TRIAL_JOB_ID, STANDALONE)

\* variant of line 27: the signal must consist of digits only
SeqIdParsesDigitsOnly(env) ==
    env.NNI_TRIAL_SEQ_ID = None \/ IsDigitRun(env.NNI_TRIAL_SEQ_ID.s)

\* line 27: does int(...) return
SeqIdParses(env) ==
    env.NNI_TRIAL_SEQ_ID = None \/ IntParses(env.NNI_TRIAL_SEQ_ID.s)

\* line 27
InitSequenceId(env) ==
    IF env.NNI_TRIAL_SEQ_ID # None THEN PyInt(IntOf(env.NNI_TRIAL_SEQ_ID.s))
    ELSE PyInt(0)

-----------------------------------------------------------------------------
(* What the channel and the caller can supply                              *)

Record(id, f) == [kind |-> "record", parameter_id |-> id, parameters |-> PyDict(f)]

\* hyperparameter names, and one no record has
Lr == <<"l", "r">>

Bs == <<"b", "s">>

Missing == <<"m", "i", "s", "s", "i", "n", "g">>

Tags == {Lr, Bs, Missing}

Records ==
    { Record(PyInt(0), [t \in {Lr} |-> PyFloat(10)]),
      Record(PyInt(1), [t \in {Lr, Bs} |-> IF t = Lr THEN PyFloat(20) ELSE PyInt(32)]) }

Metrics ==
    { PyFloat(950),
      PyDict([t \in {<<"d", "e", "f", "a", "u", "l", "t">>} |-> PyFloat(100)]) }

OverrideValues ==
    { PyInt(0), PyInt(MaxOverride), PyBool(1), PyStr(<<"5">>), PyFloat(5000), None }

\* what receive_parameter() can do: return a record, return None, or raise
ChannelFailure == [kind |-> "raise"]

ChannelResponses == Records \cup {None, ChannelFailure}

\* a call that never reached receive_parameter()
NotAsked == [kind |-> "not asked"]

\* the record of one call: its argument, how it ended, what it returned, the
\* envelope it passed to send_metric (None when it made no such call) and
\* what receive_parameter() answered (NotAsked when it made no such call)
Call(op, arg, status, ret, envelope, response) ==
    [op |-> op, arg |-> arg, status |-> status, ret |-> ret,
     sent |-> envelope, received |-> response]

Returned(op, arg, value) == Call(op, arg, "ok", value, None, NotAsked)

Raised(op, arg, error) == Call(op, arg, error, None, None, NotAsked)

-----------------------------------------------------------------------------
(* Module import: lines 24-27 and 104                                      *)

Init ==
    /\ trial_env_vars \in Environments
    /\ observed = <<>>
    /\ since_override = None
    /\ result = Returned("import", None, None)
    /\ _params = None
    /\ _experiment_id = InitExperimentId(trial_env_vars)
    /\ _trial_id = InitTrialId(trial_env_vars)
    /\ IF SeqIdParses(trial_env_vars)
       THEN /\ import_status = "ok"
            /\ _sequence_id = InitSequenceId(trial_env_vars)
            /\ _intermediate_seq = PyInt(0)
       ELSE /\ import_status = "ValueError"
            /\ _sequence_id = Unbound
            /\ _intermediate_seq = Unbound

-----------------------------------------------------------------------------
(* Pieces of the function bodies                                           *)

\* variant of line 63: a None answer leaves the stored record in place
ReceivedKeepsOld(response) == IF response = None THEN _params ELSE response

\* line 63: the assignment to _params
Received(response) == response

\* lines 64-66: the value get_next_parameter returns
NextParameterValue(p) == IF p = None THEN None ELSE p.parameters

\* variant of lines 76-80: the lookup is parameters.get(tag)
CurrentParameterGet(op, tag) ==
    IF _params = None THEN Returned(op, tag, None)
    ELSE IF tag = None THEN Returned(op, tag, _params.parameters)
    ELSE IF tag.s \in DOMAIN _params.parameters.items
         THEN Returned(op, tag, _params.parameters.items[tag.s])
         ELSE Returned(op, tag, None)

\* lines 76-80: outcome of get_current_parameter
CurrentParameter(op, tag) ==
    IF _params = None THEN Returned(op, tag, None)
    ELSE IF tag = None THEN Returned(op, tag, _params.parameters)
    ELSE IF tag.s \in DOMAIN _params.parameters.items
         THEN Returned(op, tag, _params.parameters.items[tag.s])
         ELSE Raised(op, tag, "KeyError")

\* line 108: isinstance(value, int); bool is a subclass of int
IsInstanceInt(value) == value.kind \in {"int", "bool"}

\* variant of line 110: the counter never moves backwards
OverwrittenForward(value) ==
    IF value.v < _intermediate_seq.v THEN _intermediate_seq ELSE value

\* variant of line 110: the stored value is one past the argument
OverwrittenNext(value) == PyInt(value.v + 1)

\* line 110: the assignment to _intermediate_seq
Overwritten(value) == value

\* variant of lines 130 and 157: a stored record is required in every mode
ReportAllowedWithRecord == Truthy(_params)

\* variant of lines 130 and 157: the platform signal is tested for truth
ReportAllowedTruthyPlatform ==
    Truthy(_params) \/ ~Truthy(trial_env_vars.NNI_PLATFORM)

\* lines 130 and 157: the asserted condition
ReportAllowed == Truthy(_params) \/ trial_env_vars.NNI_PLATFORM = None

\* variant of lines 133 and 160: the id itself is tested for truth
ParameterIdIfTruthy(p) ==
    IF Truthy(p) /\ p.parameter_id.v # 0 THEN p.parameter_id ELSE None

\* lines 133 and 160: parameter_id=_params['parameter_id'] if _params else None
ParameterIdOf(p) == IF Truthy(p) THEN p.parameter_id ELSE None

\* variant of lines 134 and 161: the defaulted identity is sent
TrialJobIdFromIdentity(env) == PyOr(env.NNI_TRIAL_JOB_ID, STANDALONE)

\* lines 134 and 161: trial_job_id=trial_env_vars.NNI_TRIAL_JOB_ID
TrialJobIdOf(env) == env.NNI_TRIAL_JOB_ID

\* lines 132-138: the keyword arguments of the PERIODICAL send_metric call
IntermediateEnvelope(metric) ==
    [parameter_id |-> ParameterIdOf(_params),
     trial_job_id |-> TrialJobIdOf(trial_env_vars),
     type         |-> "PERIODICAL",
     sequence     |-> _intermediate_seq,
     value        |-> metric]

\* variant of lines 159-165: the FINAL envelope carries the counter
FinalEnvelopeWithCounter(metric) ==
    [parameter_id |-> ParameterIdOf(_params),
     trial_job_id |-> TrialJobIdOf(trial_env_vars),
     type         |-> "FINAL",
     sequence     |-> _intermediate_seq,
     value        |-> metric]

\* lines 159-165: the keyword arguments of the FINAL send_metric call
FinalEnvelope(metric) ==
    [parameter_id |-> ParameterIdOf(_params),
     trial_job_id |-> TrialJobIdOf(trial_env_vars),
     type         |-> "FINAL",
     sequence     |-> PyInt(0),
     value        |-> metric]

\* variant of line 139: the counter advances by two
IncrementedTwice(seq) == PyInt(seq.v + 2)

\* line 139: _intermediate_seq += 1
Incremented(seq) == PyInt(seq.v + 1)

\* outcome of a call whose send_metric returned (delivered) or raised
Sent(op, metric, envelope, delivered) ==
    Call(op, metric, IF delivered THEN "ok" ELSE "ChannelError", None, envelope, NotAsked)

-----------------------------------------------------------------------------
(* The facade operations                                                   *)

Identity == <<trial_env_vars, import_status, _experiment_id, _trial_id, _sequence_id>>

\* lines 62-66, also reached through the alias of lines 68-72
NextParameterCall(op, response) ==
    /\ import_status = "ok"
    /\ IF response = ChannelFailure
       THEN /\ result' = Call(op, None, "ChannelError", None, None, response)
            /\ UNCHANGED _params
       ELSE /\ _params' = Received(response)
            /\ result' = Call(op, None, "ok", NextParameterValue(_params'), None, response)
    /\ UNCHANGED <<Identity, _intermediate_seq, observed, since_override>>

get_next_parameter ==
    \E response \in ChannelResponses : NextParameterCall("get_next_parameter", response)

\* variant of lines 68-72: the alias asks the channel itself and stores nothing
get_next_parameters_unstored ==
    /\ import_status = "ok"
    /\ \E response \in ChannelResponses :
         result' = IF response = ChannelFailure
                   THEN Call("get_next_parameters", None, "ChannelError", None, None, response)
                   ELSE Call("get_next_parameters", None, "ok",
                             NextParameterValue(response), None, response)
    /\ UNCHANGED <<Identity, _params, _intermediate_seq, observed, since_override>>

get_next_parameters ==
    \E response \in ChannelResponses : NextParameterCall("get_next_parameters", response)

get_current_parameter ==
    /\ import_status = "ok"
    /\ \E tag \in {None} \cup {PyStr(t) : t \in Tags} :
           result' = CurrentParameter("get_current_parameter", tag)
    /\ UNCHANGED <<Identity, _params, _intermediate_seq, observed, since_override>>

get_experiment_id ==
    /\ import_status = "ok"
    /\ result' = Returned("get_experiment_id", None, _experiment_id)
    /\ UNCHANGED <<Identity, _params, _intermediate_seq, observed, since_override>>

get_trial_id ==
    /\ import_status = "ok"
    /\ result' = Returned("get_trial_id", None, _trial_id)
    /\ UNCHANGED <<Identity, _params, _intermediate_seq, observed, since_override>>

\* variant of lines 96-102: the intermediate counter is returned
get_sequence_id_of_reports ==
    /\ import_status = "ok"
    /\ result' = Returned("get_sequence_id", None, _intermediate_seq)
    /\ UNCHANGED <<Identity, _params, _intermediate_seq, observed, since_override>>

get_sequence_id ==
    /\ import_status = "ok"
    /\ result' = Returned("get_sequence_id", None, _sequence_id)
    /\ UNCHANGED <<Identity, _params, _intermediate_seq, observed, since_override>>

\* lines 107-110
overwrite_intermediate_seq ==
    /\ import_status = "ok"
    /\ \E value \in OverrideValues :
         IF IsInstanceInt(value)
         THEN /\ _intermediate_seq' = Overwritten(value)
              /\ since_override' = [kind |-> "override", value |-> value, reports |-> 0]
              /\ result' = Returned("overwrite_intermediate_seq", value, None)
         ELSE /\ result' = Raised("overwrite_intermediate_seq", value, "AssertionError")
              /\ UNCHANGED <<_intermediate_seq, since_override>>
    /\ UNCHANGED <<Identity, _params, observed>>

\* variant of lines 129-139: the counter advances before the send
report_intermediate_result_counting_first ==
    /\ import_status = "ok"
    /\ \E metric \in Metrics, delivered \in BOOLEAN :
         IF ~ReportAllowed
         THEN /\ result' = Raised("report_intermediate_result", metric, "AssertionError")
              /\ UNCHANGED <<_intermediate_seq, observed, since_override>>
         ELSE /\ Len(observed) < MaxSent
              /\ _intermediate_seq.v < MaxOverride + MaxSent
              /\ result' = Sent("report_intermediate_result", metric,
                                IntermediateEnvelope(metric), delivered)
              /\ _intermediate_seq' = Incremented(_intermediate_seq)
              /\ IF delivered
                 THEN /\ observed' = Append(observed, result'.sent.sequence)
                      /\ since_override' =
                           IF since_override = None THEN None
                           ELSE [since_override EXCEPT !.reports = @ + 1]
                 ELSE UNCHANGED <<observed, since_override>>
    /\ UNCHANGED <<Identity, _params>>

\* lines 129-139
report_intermediate_result ==
    /\ import_status = "ok"
    /\ \E metric \in Metrics, delivered \in BOOLEAN :
         IF ~ReportAllowed
         THEN /\ result' = Raised("report_intermediate_result", metric, "AssertionError")
              /\ UNCHANGED <<_intermediate_seq, observed, since_override>>
         ELSE /\ Len(observed) < MaxSent
              /\ result' = Sent("report_intermediate_result", metric,
                                IntermediateEnvelope(metric), delivered)
              /\ IF delivered
                 THEN /\ _intermediate_seq' = Incremented(_intermediate_seq)
                      /\ observed' = Append(observed, result'.sent.sequence)
                      /\ since_override' =
                           IF since_override = None THEN None
                           ELSE [since_override EXCEPT !.reports = @ + 1]
                 ELSE UNCHANGED <<_intermediate_seq, observed, since_override>>
    /\ UNCHANGED <<Identity, _params>>

\* variant of lines 157-165: line 139 is repeated after the FINAL send
report_final_result_counting ==
    /\ import_status = "ok"
    /\ \E metric \in Metrics, delivered \in BOOLEAN :
         IF ~ReportAllowed
         THEN /\ result' = Raised("report_final_result", metric, "AssertionError")
              /\ UNCHANGED _intermediate_seq
         ELSE /\ result' = Sent("report_final_result", metric, FinalEnvelope(metric), delivered)
              /\ _intermediate_seq' =
                   IF delivered /\ _intermediate_seq.v < MaxOverride + MaxSent
                   THEN Incremented(_intermediate_seq) ELSE _intermediate_seq
    /\ UNCHANGED <<Identity, _params, observed, since_override>>

\* lines 157-165
report_final_result ==
    /\ import_status = "ok"
    /\ \E metric \in Metrics, delivered \in BOOLEAN :
         IF ~ReportAllowed
         THEN result' = Raised("report_final_result", metric, "AssertionError")
         ELSE result' = Sent("report_final_result", metric, FinalEnvelope(metric), delivered)
    /\ UNCHANGED <<Identity, _params, _intermediate_seq, observed, since_override>>

Next ==
    \/ get_next_parameter
    \/ get_next_parameters
    \/ get_current_parameter
    \/ get_experiment_id
    \/ get_trial_id
    \/ get_sequence_id
    \/ overwrite_intermediate_seq
    \/ report_intermediate_result
    \/ report_final_result

Spec == Init /\ [][Next]_vars

-----------------------------------------------------------------------------
(* Vocabulary of the properties                                            *)

Reports == {"report_intermediate_result", "report_final_result"}

Last(q) == q[Len(q)]

Standalone == trial_env_vars.NNI_PLATFORM = None

\* the step just taken was a call of op
Called(op) == result'.op = op

-----------------------------------------------------------------------------
(* C1 *)

\* C1: as long as overwrite_intermediate_seq has not completed, the k-th
\* PERIODICAL envelope the channel accepted carries sequence k-1, and the
\* report_intermediate_result call that just returned sent the envelope
\* numbered by its rank, whatever other calls were made in between.
C1_SequenceMonotonicity ==
    since_override = None =>
        /\ \A k \in 1..Len(observed) : observed[k] = PyInt(k - 1)
        /\ (result.op = "report_intermediate_result" /\ result.status = "ok") =>
               /\ result.sent.type = "PERIODICAL"
               /\ result.sent.sequence = PyInt(Len(observed) - 1)

\* three accepted reports, no override, with a parameter fetch and a FINAL
\* report made along the way
C1_Witness ==
    /\ since_override = None
    /\ Len(observed) >= 3
    /\ _params # None
    /\ result.op = "report_final_result"

-----------------------------------------------------------------------------
(* C2 *)

\* C2 as stated: the accepted PERIODICAL sequence numbers go up by exactly one
\* from each envelope to the next, the first being 0 or an override value,
\* wherever overwrite_intermediate_seq is called.
C2_StrictlyIncreasingAlways ==
    /\ Len(observed) >= 1 => (observed[1] = PyInt(0) \/ since_override # None)
    /\ \A i \in 2..Len(observed) : observed[i].v = observed[i - 1].v + 1

\* C2 (amended): each accepted PERIODICAL envelope carries the value of the
\* latest overwrite_intermediate_seq when one completed since the previous
\* accepted PERIODICAL envelope, otherwise the previous one's number plus one
\* (0 for the very first).
C2_IncreasingBetweenOverrides ==
    [][ observed' # observed =>
          Last(observed') =
             IF since_override # None /\ since_override.reports = 0
             THEN since_override.value
             ELSE IF observed = <<>> THEN PyInt(0)
             ELSE PyInt(Last(observed).v + 1) ]_vars

\* an override between two accepted envelopes made the numbers go back
C2_Witness ==
    /\ Len(observed) >= 2
    /\ since_override # None /\ since_override.reports = 1
    /\ Last(observed).v <= observed[Len(observed) - 1].v

-----------------------------------------------------------------------------
(* C3 *)

\* C3: a report_final_result call made while the asserted condition holds
\* hands the channel one envelope, of type FINAL and sequence 0, whatever the
\* counter is.
C3_FinalSequenceFixed ==
    [][ (Called("report_final_result") /\ ReportAllowed) =>
          /\ result'.sent # None
          /\ result'.sent.type = "FINAL"
          /\ result'.sent.sequence = PyInt(0) ]_vars

\* a FINAL envelope sent after two accepted reports and an override, with a
\* counter that is not 0
C3_Witness ==
    /\ result.op = "report_final_result" /\ result.status = "ok"
    /\ Len(observed) >= 2
    /\ since_override # None
    /\ _intermediate_seq.v > 0

-----------------------------------------------------------------------------
(* C4 *)

\* C4: while a record is stored, every report hands the channel an envelope
\* whose parameter_id is the id of that record.
C4_ParameterPropagation ==
    [][ (result'.op \in Reports /\ _params # None) =>
          /\ result'.sent # None
          /\ result'.sent.parameter_id = _params.parameter_id ]_vars

\* a delivered FINAL envelope tagged with the id 0 of the stored record, and
\* an earlier accepted PERIODICAL one
C4_Witness ==
    /\ result.op = "report_final_result" /\ result.status = "ok"
    /\ _params # None /\ _params.parameter_id = PyInt(0)
    /\ result.sent.parameter_id = PyInt(0)
    /\ Len(observed) >= 1

-----------------------------------------------------------------------------
(* C5 *)

\* C5: with NNI_PLATFORM absent and no record stored, a report never fails
\* its assertion: it hands the channel one envelope with parameter_id None,
\* it ends as the channel's send_metric ends, and an accepted intermediate
\* report advances the counter by one.
C5_StandaloneFallback ==
    [][ (result'.op \in Reports /\ Standalone /\ _params = None) =>
          /\ result'.status \in {"ok", "ChannelError"}
          /\ result'.sent # None
          /\ result'.sent.parameter_id = None
          /\ (Called("report_intermediate_result") /\ result'.status = "ok") =>
                 _intermediate_seq' = PyInt(_intermediate_seq.v + 1) ]_vars

\* a standalone intermediate report without a record was accepted
C5_Witness ==
    /\ Standalone /\ _params = None
    /\ result.op = "report_intermediate_result" /\ result.status = "ok"
    /\ result.sent.parameter_id = None
    /\ Len(observed) >= 2

-----------------------------------------------------------------------------
(* C6 *)

\* C6: with NNI_PLATFORM present (even empty) and no record stored, a report
\* fails with AssertionError, hands nothing to the channel and leaves the
\* stored record and the counter as they were.
C6_UsageContractViolation ==
    [][ (result'.op \in Reports /\ ~Standalone /\ _params = None) =>
          /\ result'.status = "AssertionError"
          /\ result'.sent = None
          /\ UNCHANGED <<_params, _intermediate_seq, observed>> ]_vars

\* an orchestrated report failed its assertion, the platform signal being
\* the empty string
C6_Witness ==
    /\ trial_env_vars.NNI_PLATFORM = PyStr(<<>>)
    /\ _params = None
    /\ result.op \in Reports /\ result.status = "AssertionError"

-----------------------------------------------------------------------------
(* C7 *)

C7_NextTwoReports ==
    (/\ since_override # None
     /\ since_override.value.kind = "int"
     /\ since_override.reports \in {1, 2}) =>
        Last(observed) = PyInt(since_override.value.v + since_override.reports - 1)

C7_OverrideOnlySetsCounter ==
    (Called("overwrite_intermediate_seq") /\ result'.arg.kind = "int") =>
        /\ result'.status = "ok"
        /\ result'.sent = None
        /\ _intermediate_seq' = result'.arg
        /\ UNCHANGED <<Identity, _params, observed>>

\* C7: after overwrite_intermediate_seq(v) with an integer v, the next
\* accepted PERIODICAL envelope carries sequence v and the one after it v+1,
\* also when v is not above numbers already used; the override hands nothing
\* to the channel and changes only the counter.
C7_OverrideCounter ==
    []C7_NextTwoReports /\ [][C7_OverrideOnlySetsCounter]_vars

\* two reports accepted after an override to a number already used
C7_Witness ==
    /\ Len(observed) >= 3
    /\ since_override # None /\ since_override.reports = 2
    /\ since_override.value.kind = "int"
    /\ since_override.value.v <= observed[Len(observed) - 2].v

-----------------------------------------------------------------------------
(* C8 *)

\* C8: overwrite_intermediate_seq called with anything but a proper integer
\* (a string, a float, None, a boolean) fails and leaves the counter and the
\* stored record as they were.
C8_OverrideRejectsNonIntegers ==
    [][ (Called("overwrite_intermediate_seq") /\ result'.arg.kind # "int") =>
          /\ result'.status # "ok"
          /\ UNCHANGED <<_params, _intermediate_seq>> ]_vars

-----------------------------------------------------------------------------
(* C9 *)

\* C9: when receive_parameter() answers, get_next_parameter stores exactly
\* the answer: a record replaces the stored one whole and its parameters are
\* returned; None unsets the stored record and None is returned.  Nothing
\* else changes.
C9_StoresChannelAnswer ==
    [][ (Called("get_next_parameter") /\ result'.received # ChannelFailure) =>
          /\ _params' = result'.received
          /\ _params' \in Records \cup {None}
          /\ result'.status = "ok"
          /\ result'.ret = IF result'.received = None THEN None
                           ELSE result'.received.parameters
          /\ UNCHANGED <<Identity, _intermediate_seq, observed>> ]_vars

\* the channel answered None after a record had been stored (an orchestrated
\* run had an accepted report), and the record is gone
C9_Witness ==
    /\ result.op = "get_next_parameter" /\ result.received = None
    /\ _params = None
    /\ ~Standalone /\ Len(observed) >= 1

-----------------------------------------------------------------------------
(* C10 *)

\* C10: get_current_parameter returns None when nothing is stored, whatever
\* the tag; the whole parameters mapping when called without a tag; the
\* tag's value when the mapping has the tag; and fails with KeyError when it
\* has not.  It hands nothing to the channel and changes no state.
C10_CurrentParameter ==
    [][ Called("get_current_parameter") =>
          LET tag == result'.arg IN
          /\ _params = None =>
                 result'.status = "ok" /\ result'.ret = None
          /\ (_params # None /\ tag = None) =>
                 result'.status = "ok" /\ result'.ret = _params.parameters
          /\ (_params # None /\ tag # None
                 /\ tag.s \in DOMAIN _params.parameters.items) =>
                 result'.status = "ok" /\ result'.ret = _params.parameters.items[tag.s]
          /\ (_params # None /\ tag # None
                 /\ tag.s \notin DOMAIN _params.parameters.items) =>
                 result'.status = "KeyError"
          /\ result'.sent = None
          /\ UNCHANGED <<Identity, _params, _intermediate_seq, observed>> ]_vars

\* a lookup of a tag the stored mapping does not have
C10_Witness ==
    /\ result.op = "get_current_parameter" /\ result.status = "KeyError"
    /\ _params # None /\ result.arg = PyStr(Missing)

-----------------------------------------------------------------------------
(* C11 *)

Getters == {"get_experiment_id", "get_trial_id", "get_sequence_id"}

Empty == PyStr(<<>>)

\* C11 as stated: each getter returns the default when its signal is absent
\* and the signal's own value (as an integer for the sequence id) whenever
\* the signal is present.
C11_SignalWheneverPresent ==
    /\ result.op = "get_experiment_id" =>
           result.ret = IF trial_env_vars.NNI_EXP_ID = None THEN STANDALONE
                        ELSE trial_env_vars.NNI_EXP_ID
    /\ result.op = "get_trial_id" =>
           result.ret = IF trial_env_vars.NNI_TRIAL_JOB_ID = None THEN STANDALONE
                        ELSE trial_env_vars.NNI_TRIAL_JOB_ID
    /\ result.op = "get_sequence_id" =>
           result.ret = IF trial_env_vars.NNI_TRIAL_SEQ_ID = None THEN PyInt(0)
                        ELSE PyInt(IntOf(trial_env_vars.NNI_TRIAL_SEQ_ID.s))

\* C11 (amended): the experiment id and trial id getters return "STANDALONE"
\* when their signal is absent or the empty string and the signal's own value
\* otherwise; the sequence id getter returns 0 when its signal is absent and
\* the signal parsed as an integer when it is present.
C11_IdentityInitialization ==
    /\ result.op = "get_experiment_id" =>
           result.ret = IF trial_env_vars.NNI_EXP_ID \in {None, Empty} THEN STANDALONE
                        ELSE trial_env_vars.NNI_EXP_ID
    /\ result.op = "get_trial_id" =>
           result.ret = IF trial_env_vars.NNI_TRIAL_JOB_ID \in {None, Empty} THEN STANDALONE
                        ELSE trial_env_vars.NNI_TRIAL_JOB_ID
    /\ result.op = "get_sequence_id" =>
           /\ result.ret = IF trial_env_vars.NNI_TRIAL_SEQ_ID = None THEN PyInt(0)
                           ELSE PyInt(IntOf(trial_env_vars.NNI_TRIAL_SEQ_ID.s))
           /\ trial_env_vars.NNI_TRIAL_SEQ_ID = PyStr(<<"7">>) => result.ret = PyInt(7)
           /\ trial_env_vars.NNI_TRIAL_SEQ_ID = PyStr(<<" ", "-", "1", "_", "2">>) =>
                  result.ret = PyInt(-12)

\* the trial id was asked for with the signal present but empty
C11_Witness ==
    /\ result.op = "get_trial_id"
    /\ trial_env_vars.NNI_TRIAL_JOB_ID = Empty
    /\ result.ret = STANDALONE

-----------------------------------------------------------------------------
(* C12 *)

\* C12: get_next_parameters does what get_next_parameter does with the same
\* channel answer: an answer is stored whole and its parameters (or None)
\* returned, a channel error leaves the stored record alone, and the counter
\* is never touched.
C12_AliasOfGetNextParameter ==
    [][ Called("get_next_parameters") =>
          /\ result'.received # ChannelFailure =>
                 /\ result'.status = "ok"
                 /\ _params' = result'.received
                 /\ result'.ret = IF result'.received = None THEN None
                                  ELSE result'.received.parameters
          /\ result'.received = ChannelFailure =>
                 /\ result'.status = "ChannelError"
                 /\ UNCHANGED _params
          /\ UNCHANGED <<Identity, _intermediate_seq, observed>> ]_vars

\* the alias replaced the record an accepted report had used by another one
C12_Witness ==
    /\ result.op = "get_next_parameters" /\ result.status = "ok"
    /\ _params \in Records /\ result.ret = _params.parameters
    /\ _params.parameter_id = PyInt(1)
    /\ Len(observed) >= 1

-----------------------------------------------------------------------------
(* C13 *)

C13_CounterAfterReport ==
    result.op = "report_intermediate_result" =>
        /\ result.status = "ChannelError" => _intermediate_seq = result.sent.sequence
        /\ result.status = "ok" => _intermediate_seq.v = result.sent.sequence.v + 1

C13_FailedSendStep ==
    /\ (Called("report_intermediate_result") /\ result'.status = "ChannelError") =>
           /\ result'.sent # None
           /\ UNCHANGED <<_intermediate_seq, observed, _params>>
    /\ (/\ result.op = "report_intermediate_result"
        /\ result.status = "ChannelError"
        /\ Called("report_intermediate_result")
        /\ result'.sent # None) =>
           result'.sent.sequence = result.sent.sequence

\* C13: when send_metric raises in report_intermediate_result the call ends
\* with the channel's error and the counter keeps its value, so the report
\* made next carries the same sequence number; the counter is one past the
\* envelope's number only after an accepted send.
C13_CounterAdvancesOnSuccess ==
    []C13_CounterAfterReport /\ [][C13_FailedSendStep]_vars

\* a send failed after two accepted ones
C13_Witness ==
    /\ result.op = "report_intermediate_result" /\ result.status = "ChannelError"
    /\ Len(observed) >= 2
    /\ _intermediate_seq = result.sent.sequence

-----------------------------------------------------------------------------
(* C14 *)

\* C14: no call changes _experiment_id, _trial_id or _sequence_id; each
\* getter returns normally the value of its global, hands nothing to the
\* channel and changes no state.
C14_IdentityImmutable ==
    [][ /\ UNCHANGED <<_experiment_id, _trial_id, _sequence_id>>
        /\ result'.op \in Getters =>
               /\ result'.status = "ok"
               /\ result'.sent = None
               /\ UNCHANGED <<_params, _intermediate_seq, observed, since_override>>
        /\ Called("get_experiment_id") => result'.ret = _experiment_id
        /\ Called("get_trial_id") => result'.ret = _trial_id
        /\ Called("get_sequence_id") => result'.ret = _sequence_id ]_vars

\* the sequence id asked for after reports and an override moved the counter
C14_Witness ==
    /\ result.op = "get_sequence_id"
    /\ result.ret = PyInt(7)
    /\ Len(observed) >= 2 /\ since_override # None
    /\ _intermediate_seq # PyInt(7)

-----------------------------------------------------------------------------
(* C15 *)

\* C15: report_final_result leaves the counter and the stored record as they
\* were, whether it returns, fails its assertion or the send raises; a call
\* made right after another one is treated like the first and hands the
\* channel its own FINAL envelope.
C15_FinalLeavesSessionState ==
    [][ Called("report_final_result") =>
          /\ UNCHANGED <<Identity, _params, _intermediate_seq, observed, since_override>>
          /\ result'.status \in {"ok", "AssertionError", "ChannelError"}
          /\ (result.op = "report_final_result" /\ result.sent # None) =>
                 /\ result'.sent # None
                 /\ result'.sent.type = "FINAL"
                 /\ result'.sent.value = result'.arg ]_vars

\* a FINAL send raised, with a counter two reports had advanced
C15_Witness ==
    /\ result.op = "report_final_result" /\ result.status = "ChannelError"
    /\ Len(observed) >= 2
    /\ _intermediate_seq.v >= 2
    /\ _params # None

-----------------------------------------------------------------------------
(* C16 *)

\* C16: every envelope carries as trial_job_id the NNI_TRIAL_JOB_ID signal as
\* read from the environment: None when the signal is absent, although
\* _trial_id is then "STANDALONE"; it is not the defaulted _trial_id.
C16_RawTrialJobId ==
    result.sent # None =>
        /\ result.sent.trial_job_id = trial_env_vars.NNI_TRIAL_JOB_ID
        /\ trial_env_vars.NNI_TRIAL_JOB_ID = None =>
               (result.sent.trial_job_id = None /\ _trial_id = STANDALONE)
        /\ trial_env_vars.NNI_TRIAL_JOB_ID \in {None, Empty} =>
               (_trial_id = STANDALONE /\ result.sent.trial_job_id # _trial_id)

\* an envelope left with trial_job_id None
C16_Witness ==
    /\ result.sent # None
    /\ result.sent.trial_job_id = None
    /\ _trial_id = STANDALONE

-----------------------------------------------------------------------------
(* C17 *)

\* C17: the import fails exactly when NNI_TRIAL_SEQ_ID is present and int()
\* does not accept it; the error is a ValueError and no sequence id is
\* bound; an absent NNI_TRIAL_SEQ_ID and any NNI_EXP_ID or NNI_TRIAL_JOB_ID
\* never make it fail.
C17_InitFailsOnlyOnBadSeqId ==
    LET seq == trial_env_vars.NNI_TRIAL_SEQ_ID IN
    /\ import_status \in {"ok", "ValueError"}
    /\ import_status = "ValueError" <=> (seq # None /\ ~IntParses(seq.s))
    /\ import_status = "ValueError" => (_sequence_id = Unbound /\ result.op = "import")
    /\ seq \in {None, PyStr(<<"7">>), PyStr(<<"0">>), PyStr(<<" ", "-", "1", "_", "2">>)} =>
           import_status = "ok"
    /\ seq \in {Empty, PyStr(<<"x">>)} => import_status = "ValueError"

\* an import that failed on a sequence id that is not a number
C17_Witness ==
    /\ import_status = "ValueError"
    /\ trial_env_vars.NNI_TRIAL_SEQ_ID = PyStr(<<"x">>)
    /\ trial_env_vars.NNI_EXP_ID # None

-----------------------------------------------------------------------------
(* C18 *)

NextParameterOps == {"get_next_parameter", "get_next_parameters"}

\* C18: in an orchestrated run a report made right after a fetch that
\* answered None fails its assertion and hands nothing to the channel, also
\* when a record had been stored before; a report passes the assertion
\* exactly when a record is stored at that moment.
C18_NoneAnswerRevokes ==
    [][ (result'.op \in Reports /\ ~Standalone) =>
          /\ (result.op \in NextParameterOps /\ result.received = None) =>
                 (result'.status = "AssertionError" /\ result'.sent = None)
          /\ result'.status = "AssertionError" <=> _params = None
          /\ result'.sent = None <=> _params = None ]_vars

\* an orchestrated report failed although an earlier report had been accepted
C18_Witness ==
    /\ ~Standalone
    /\ result.op \in Reports /\ result.status = "AssertionError"
    /\ Len(observed) >= 1
    /\ _params = None

-----------------------------------------------------------------------------
(* C19 *)

\* C19: an envelope's parameter_id is None exactly when no record is stored
\* when it is sent; such an envelope is sent only with NNI_PLATFORM absent,
\* and a standalone run with a stored record sends that record's id.
C19_NullIdIffNoRecord ==
    [][ result'.sent # None =>
          /\ result'.sent.parameter_id = None <=> _params = None
          /\ result'.sent.parameter_id = None => Standalone
          /\ (Standalone /\ _params # None) =>
                 result'.sent.parameter_id = _params.parameter_id ]_vars

\* a standalone report tagged with the id 0 of the stored record
C19_Witness ==
    /\ Standalone
    /\ _params # None /\ _params.parameter_id = PyInt(0)
    /\ result.op = "report_intermediate_result" /\ result.sent # None
    /\ result.sent.parameter_id = PyInt(0)

====
